---- MODULE Spec2Model ----
(***************************************************************************)
(* Model of sing-geosite/main.go: parse (upstream records -> category     *)
(* map), generate (the artifact pipeline) and release (the freshness      *)
(* gate).  Strings are sequences of one-character strings, so that         *)
(* strings.ToLower, strings.Contains and "+" are computed, not assumed.    *)
(***************************************************************************)
EXTENDS Integers, Sequences, FiniteSets, TLC

VARIABLES
    vGeositeList,   \* parse: the decoded record list (vGeositeList.Entry)
    domains,        \* parse: local `domains` of the last outer-loop iteration, before Uniq
    domainMap,      \* parse: the returned map, as a function key -> item list
    parsed,         \* TRUE once parse has returned
    pc,             \* position in release / generate
    err,            \* the error generate returned ("nil" for none)
    upstream,       \* environment: the blob the upstream asset serves
    vData,          \* generate: the downloaded blob
    stale,          \* environment: TRUE when a previous run left its artifacts
    outputFile,     \* the full database file
    cnOutputFile,   \* the subset database file
    ruleSet,        \* the rule-set directory: <<code, extension>> -> file
    cnDomainMap,    \* generate: the subset map
    remaining,      \* generate: keys of domainMap the range loop has not visited
    code,           \* generate: loop variable `code`
    headlessRule,   \* generate: loop local `headlessRule`
    calls,          \* the external calls made so far, in order, with their outcome
    noSkip,         \* environment: os.Getenv("NO_SKIP")
    sourceRelease,  \* release: result of fetch(source)
    destinationRelease, \* release: result of fetch(destination)
    outputs         \* the setActionOutput lines written so far

parseVars == <<vGeositeList, domains, domainMap, parsed>>
fileVars == <<outputFile, cnOutputFile, ruleSet>>
generateVars == <<vData, cnDomainMap, remaining, code, headlessRule>>
releaseVars == <<sourceRelease, destinationRelease, outputs>>
envVars == <<upstream, stale, noSkip>>

vars == <<parseVars, pc, err, fileVars, generateVars, calls, releaseVars, envVars>>

-----------------------------------------------------------------------------
(* Strings *)

UpperLetters ==
    <<"A", "B", "C", "D", "E", "F", "G", "H", "I", "J", "K", "L", "M",
      "N", "O", "P", "Q", "R", "S", "T", "U", "V", "W", "X", "Y", "Z">>
LowerLetters ==
    <<"a", "b", "c", "d", "e", "f", "g", "h", "i", "j", "k", "l", "m",
      "n", "o", "p", "q", "r", "s", "t", "u", "v", "w", "x", "y", "z">>

\* strings.ToLower on one character (the letters the inputs use)
ToLowerChar(ch) ==
    IF \E i \in 1..Len(UpperLetters) : UpperLetters[i] = ch
    THEN LowerLetters[CHOOSE i \in 1..Len(UpperLetters) : UpperLetters[i] = ch]
    ELSE ch

\* strings.ToLower
ToLower(s) == [i \in 1..Len(s) |-> ToLowerChar(s[i])]

\* strings.Contains(s, sub)
Contains(s, sub) ==
    \E i \in 0..(Len(s) - Len(sub)) :
        \A j \in 1..Len(sub) : s[i + j] = sub[j]

Dot == <<".">>
At  == <<"@">>

-----------------------------------------------------------------------------
(* parse *)

\* routercommon.Domain_Type; "Other" is any value outside the four known ones
DomainTypes == {"Plain", "Regex", "RootDomain", "Full", "Other"}

Item(t, v) == [Type |-> t, Value |-> v]

\* common.Uniq: order-stable removal of later duplicates
RECURSIVE UniqFrom(_, _)
UniqFrom(arr, result) ==
    IF arr = <<>> THEN result
    ELSE IF \E i \in 1..Len(result) : result[i] = Head(arr)
         THEN UniqFrom(Tail(arr), result)
         ELSE UniqFrom(Tail(arr), Append(result, Head(arr)))

Uniq(arr) == UniqFrom(arr, <<>>)

\* the first switch of parse: the items one domain entry appends to `domains`
DomainItemsAlwaysExact(domain) ==
    CASE domain.Type = "Plain"      -> <<Item("DomainKeyword", domain.Value)>>
      [] domain.Type = "Regex"      -> <<Item("DomainRegex", domain.Value)>>
      [] domain.Type = "RootDomain" ->
            <<Item("Domain", domain.Value), Item("DomainSuffix", Dot \o domain.Value)>>
      [] domain.Type = "Full"       -> <<Item("Domain", domain.Value)>>
      [] OTHER                      -> <<>>

DomainItems(domain) ==
    CASE domain.Type = "Plain"      -> <<Item("DomainKeyword", domain.Value)>>
      [] domain.Type = "Regex"      -> <<Item("DomainRegex", domain.Value)>>
      [] domain.Type = "RootDomain" ->
            (IF Contains(domain.Value, Dot)
             THEN <<Item("Domain", domain.Value)>> ELSE <<>>)
            \o <<Item("DomainSuffix", Dot \o domain.Value)>>
      [] domain.Type = "Full"       -> <<Item("Domain", domain.Value)>>
      [] OTHER                      -> <<>>

\* the second switch of parse: the items one entry of an attribute's side list appends
AttributeItemsRegexAsKeyword(domain) ==
    CASE domain.Type = "Plain"      -> <<Item("DomainKeyword", domain.Value)>>
      [] domain.Type = "Regex"      -> <<Item("DomainKeyword", domain.Value)>>
      [] domain.Type = "RootDomain" ->
            (IF Contains(domain.Value, Dot)
             THEN <<Item("Domain", domain.Value)>> ELSE <<>>)
            \o <<Item("DomainSuffix", Dot \o domain.Value)>>
      [] domain.Type = "Full"       -> <<Item("Domain", domain.Value)>>
      [] OTHER                      -> <<>>

AttributeItems(domain) ==
    CASE domain.Type = "Plain"      -> <<Item("DomainKeyword", domain.Value)>>
      [] domain.Type = "Regex"      -> <<Item("DomainRegex", domain.Value)>>
      [] domain.Type = "RootDomain" ->
            (IF Contains(domain.Value, Dot)
             THEN <<Item("Domain", domain.Value)>> ELSE <<>>)
            \o <<Item("DomainSuffix", Dot \o domain.Value)>>
      [] domain.Type = "Full"       -> <<Item("Domain", domain.Value)>>
      [] OTHER                      -> <<>>

\* the inner loop over vGeositeEntry.Domain: the local `domains`
RECURSIVE EntryDomainsSkippingTagged(_)
EntryDomainsSkippingTagged(ds) ==
    IF ds = <<>> THEN <<>>
    ELSE (IF Head(ds).Attribute # <<>> THEN <<>> ELSE DomainItems(Head(ds)))
         \o EntryDomainsSkippingTagged(Tail(ds))

RECURSIVE EntryDomains(_)
EntryDomains(ds) ==
    IF ds = <<>> THEN <<>> ELSE DomainItems(Head(ds)) \o EntryDomains(Tail(ds))

\* the inner loop over vGeositeEntry.Domain: the side list attributes[key],
\* one occurrence of the entry per occurrence of the key among its attributes
RECURSIVE KeyCount(_, _)
KeyCount(attrs, key) ==
    IF attrs = <<>> THEN 0
    ELSE (IF Head(attrs) = key THEN 1 ELSE 0) + KeyCount(Tail(attrs), key)

RECURSIVE AttributeEntries(_, _)
AttributeEntries(ds, key) ==
    IF ds = <<>> THEN <<>>
    ELSE [i \in 1..KeyCount(Head(ds).Attribute, key) |-> Head(ds)]
         \o AttributeEntries(Tail(ds), key)

\* the keys of the side table `attributes`
AttributeKeys(ds) ==
    UNION {{ds[i].Attribute[j] : j \in 1..Len(ds[i].Attribute)} : i \in 1..Len(ds)}

\* the loop over one attribute's side list: the local `attributeDomains`
RECURSIVE AttributeDomains(_)
AttributeDomains(es) ==
    IF es = <<>> THEN <<>> ELSE AttributeItems(Head(es)) \o AttributeDomains(Tail(es))

\* line 96: code := strings.ToLower(vGeositeEntry.CountryCode)
EntryCodeVerbatim(entry) == entry.CountryCode

EntryCode(entry) == ToLower(entry.CountryCode)

\* line 167: the key code+"@"+attribute
AttributeKey(base, attribute) == base \o At \o attribute

\* line 134: the list stored under the base key
BaseListNoUniq(entry) == EntryDomains(entry.Domain)

BaseList(entry) == Uniq(EntryDomains(entry.Domain))

\* lines 136-167: the list stored under the key of one attribute
AttributeList(entry, attribute) ==
    Uniq(AttributeDomains(AttributeEntries(entry.Domain, attribute)))

\* one iteration of the outer loop of parse: the writes of one record into domainMap
parseEntryMerging(m, entry) ==
    LET base == EntryCode(entry)
        keys == AttributeKeys(entry.Domain)
        attributeKeys == {AttributeKey(base, a) : a \in keys}
    IN  [k \in DOMAIN m \cup {base} \cup attributeKeys |->
            IF k \in attributeKeys
            THEN AttributeList(entry, CHOOSE a \in keys : AttributeKey(base, a) = k)
            ELSE IF k = base
                 THEN Uniq((IF base \in DOMAIN m THEN m[base] ELSE <<>>)
                           \o EntryDomains(entry.Domain))
                 ELSE m[k]]

parseEntry(m, entry) ==
    LET base == EntryCode(entry)
        keys == AttributeKeys(entry.Domain)
        attributeKeys == {AttributeKey(base, a) : a \in keys}
    IN  [k \in DOMAIN m \cup {base} \cup attributeKeys |->
            IF k \in attributeKeys
            THEN AttributeList(entry, CHOOSE a \in keys : AttributeKey(base, a) = k)
            ELSE IF k = base THEN BaseList(entry) ELSE m[k]]

\* make(map[string][]geosite.Item)
EmptyMap == [k \in {} |-> <<>>]

\* parse, after a successful proto.Unmarshal: the outer loop over the records
RECURSIVE parseFrom(_, _)
parseFrom(m, entries) ==
    IF entries = <<>> THEN m
    ELSE parseFrom(parseEntry(m, Head(entries)), Tail(entries))

parse(entries) == parseFrom(EmptyMap, entries)

\* parse applied to a record list
Parsed(entries) ==
    /\ vGeositeList' = entries
    /\ domains' = IF entries = <<>> THEN <<>>
                  ELSE EntryDomains(entries[Len(entries)].Domain)
    /\ domainMap' = parse(entries)
    /\ parsed' = TRUE

-----------------------------------------------------------------------------
(* generate *)

\* lines 193-197
cnCodes ==
    << <<"c", "n">>,
       <<"g", "e", "o", "l", "o", "c", "a", "t", "i", "o", "n", "-", "!", "c", "n">>,
       <<"c", "a", "t", "e", "g", "o", "r", "y", "-", "c", "o", "m", "p", "a", "n", "i",
         "e", "s", "@", "c", "n">> >>

\* domainMap[key] of Go: the stored list, or the nil slice for a missing key
Lookup(m, key) == IF key \in DOMAIN m THEN m[key] ELSE <<>>

\* lines 198-201: cnDomainMap[cnCode] = domainMap[cnCode] for each of cnCodes
SubsetMapPresentOnly(m) ==
    [k \in {cnCodes[i] : i \in 1..Len(cnCodes)} \cap DOMAIN m |-> m[k]]

SubsetMap(m) ==
    [k \in {cnCodes[i] : i \in 1..Len(cnCodes)} |-> Lookup(m, k)]

\* geosite.Compile: the values of the items, appended to the bucket of their kind
RECURSIVE CompileFrom(_, _)
CompileFrom(items, rule) ==
    IF items = <<>> THEN rule
    ELSE LET it == Head(items)
             next == CASE it.Type = "Domain" ->
                            [rule EXCEPT !.Domain = Append(@, it.Value)]
                       [] it.Type = "DomainSuffix" ->
                            [rule EXCEPT !.DomainSuffix = Append(@, it.Value)]
                       [] it.Type = "DomainKeyword" ->
                            [rule EXCEPT !.DomainKeyword = Append(@, it.Value)]
                       [] it.Type = "DomainRegex" ->
                            [rule EXCEPT !.DomainRegex = Append(@, it.Value)]
                       [] OTHER -> rule
         IN  CompileFrom(Tail(items), next)

EmptyRule ==
    [Domain |-> <<>>, DomainSuffix |-> <<>>, DomainKeyword |-> <<>>, DomainRegex |-> <<>>]

Compile(items) == CompileFrom(items, EmptyRule)

\* lines 217-222: the rule handed to both rule-set writers
HeadlessRuleSuffixFromDomain(items) ==
    LET defaultRule == Compile(items)
    IN  [Domain        |-> defaultRule.Domain,
         DomainSuffix  |-> defaultRule.Domain,
         DomainKeyword |-> defaultRule.DomainKeyword,
         DomainRegex   |-> defaultRule.DomainRegex]

HeadlessRule(items) ==
    LET defaultRule == Compile(items)
    IN  [Domain        |-> defaultRule.Domain,
         DomainSuffix  |-> defaultRule.DomainSuffix,
         DomainKeyword |-> defaultRule.DomainKeyword,
         DomainRegex   |-> defaultRule.DomainRegex]

\* a file of the output: absent, old (left by a previous run), empty (just
\* created or truncated), partial (a writer failed in it) or written
MapFile(state, data) == [state |-> state, data |-> data]
RuleFile(state, data) == [state |-> state, data |-> data]

InitialFile == IF stale THEN MapFile("old", EmptyMap) ELSE MapFile("absent", EmptyMap)

NoCode == <<>>
OldCode == <<"o", "l", "d">>
NoFiles == [k \in {} |-> RuleFile("absent", EmptyRule)]

InitialRuleSet ==
    IF stale THEN [k \in {<<OldCode, "srs">>} |-> RuleFile("old", EmptyRule)]
    ELSE NoFiles

Call(name, ok, c) == [name |-> name, ok |-> ok, code |-> c]

\* `return err` of generate
Return(e) == pc' = "generated" /\ err' = e

\* line 174: download(release), every way of failing in one outcome
Download ==
    /\ pc = "download"
    /\ \E ok \in BOOLEAN :
        /\ calls' = Append(calls, Call("download", ok, NoCode))
        /\ IF ok THEN vData' = upstream /\ pc' = "parse" /\ UNCHANGED err
                 ELSE UNCHANGED vData /\ Return("download")
    /\ UNCHANGED <<parseVars, fileVars, cnDomainMap, remaining, code, headlessRule,
                   releaseVars, envVars>>

\* line 178: parse(vData); proto.Unmarshal fails on a blob that is no record list
ParseData ==
    /\ pc = "parse"
    /\ calls' = Append(calls, Call("decode", vData.ok, NoCode))
    /\ IF vData.ok
       THEN /\ Parsed(vData.Entry)
            /\ pc' = "createOutput"
            /\ UNCHANGED err
       ELSE /\ Return("decode")
            /\ UNCHANGED parseVars
    /\ UNCHANGED <<fileVars, generateVars, releaseVars, envVars>>

\* lines 182-187: os.Create(output) truncates the file
CreateOutput ==
    /\ pc = "createOutput"
    /\ \E ok \in BOOLEAN :
        /\ calls' = Append(calls, Call("createOutput", ok, NoCode))
        /\ IF ok THEN outputFile' = MapFile("empty", EmptyMap) /\ pc' = "writeOutput"
                      /\ UNCHANGED err
                 ELSE UNCHANGED outputFile /\ Return("createOutput")
    /\ UNCHANGED <<parseVars, cnOutputFile, ruleSet, generateVars, releaseVars, envVars>>

\* lines 189-192: geosite.Write(outputFile, domainMap)
WriteOutputIgnoringFailure ==
    /\ pc = "writeOutput"
    /\ \E ok \in BOOLEAN :
        /\ calls' = Append(calls, Call("writeOutput", ok, NoCode))
        /\ outputFile' = IF ok THEN MapFile("written", domainMap)
                         ELSE MapFile("partial", EmptyMap)
        /\ pc' = "createCnOutput"
        /\ UNCHANGED err
    /\ UNCHANGED <<parseVars, cnOutputFile, ruleSet, generateVars, releaseVars, envVars>>

WriteOutput ==
    /\ pc = "writeOutput"
    /\ \E ok \in BOOLEAN :
        /\ calls' = Append(calls, Call("writeOutput", ok, NoCode))
        /\ IF ok THEN outputFile' = MapFile("written", domainMap)
                      /\ pc' = "createCnOutput" /\ UNCHANGED err
                 ELSE outputFile' = MapFile("partial", EmptyMap)
                      /\ Return("writeOutput")
    /\ UNCHANGED <<parseVars, cnOutputFile, ruleSet, generateVars, releaseVars, envVars>>

\* lines 193-205: build cnDomainMap, then os.Create(cnOutput)
CreateCnOutput ==
    /\ pc = "createCnOutput"
    /\ cnDomainMap' = SubsetMap(domainMap)
    /\ \E ok \in BOOLEAN :
        /\ calls' = Append(calls, Call("createCnOutput", ok, NoCode))
        /\ IF ok THEN cnOutputFile' = MapFile("empty", EmptyMap) /\ pc' = "writeCnOutput"
                      /\ UNCHANGED err
                 ELSE UNCHANGED cnOutputFile /\ Return("createCnOutput")
    /\ UNCHANGED <<parseVars, outputFile, ruleSet, vData, remaining, code, headlessRule,
                   releaseVars, envVars>>

\* lines 207-210: geosite.Write(cnOutputFile, cnDomainMap)
WriteCnOutput ==
    /\ pc = "writeCnOutput"
    /\ \E ok \in BOOLEAN :
        /\ calls' = Append(calls, Call("writeCnOutput", ok, NoCode))
        /\ IF ok THEN cnOutputFile' = MapFile("written", cnDomainMap)
                      /\ pc' = "mkdir" /\ UNCHANGED err
                 ELSE cnOutputFile' = MapFile("partial", EmptyMap)
                      /\ Return("writeCnOutput")
    /\ UNCHANGED <<parseVars, outputFile, ruleSet, generateVars, releaseVars, envVars>>

\* lines 211-215: os.RemoveAll (its error is dropped) and os.MkdirAll;
\* then the range loop starts over the keys of domainMap
MakeRuleSetDir ==
    /\ pc = "mkdir"
    /\ \E removed \in BOOLEAN : ruleSet' = IF removed THEN NoFiles ELSE ruleSet
    /\ \E ok \in BOOLEAN :
        /\ calls' = Append(calls, Call("mkdir", ok, NoCode))
        /\ IF ok THEN pc' = "range" /\ remaining' = DOMAIN domainMap /\ UNCHANGED err
                 ELSE Return("mkdir") /\ UNCHANGED remaining
    /\ UNCHANGED <<parseVars, outputFile, cnOutputFile, vData, cnDomainMap, code,
                   headlessRule, releaseVars, envVars>>

\* the write of one file of the rule-set directory
PutFile(dir, c, ext, file) ==
    [k \in DOMAIN dir \cup {<<c, ext>>} |-> IF k = <<c, ext>> THEN file ELSE dir[k]]

\* lines 216-235: the next key in map order (any order), its compiled rule,
\* and os.Create of its .srs file
CreateSrs ==
    /\ pc = "range"
    /\ \E c \in remaining :
        /\ code' = c
        /\ remaining' = remaining \ {c}
        /\ headlessRule' = HeadlessRule(domainMap[c])
        /\ \E ok \in BOOLEAN :
            /\ calls' = Append(calls, Call("createSrs", ok, c))
            /\ IF ok THEN ruleSet' = PutFile(ruleSet, c, "srs", RuleFile("empty", EmptyRule))
                          /\ pc' = "writeSrs" /\ UNCHANGED err
                     ELSE UNCHANGED ruleSet /\ Return("createSrs")
    /\ UNCHANGED <<parseVars, outputFile, cnOutputFile, vData, cnDomainMap,
                   releaseVars, envVars>>

\* lines 236-241: srs.Write(outputRuleSet, plainRuleSet)
WriteSrs ==
    /\ pc = "writeSrs"
    /\ \E ok \in BOOLEAN :
        /\ calls' = Append(calls, Call("writeSrs", ok, code))
        /\ IF ok THEN ruleSet' = PutFile(ruleSet, code, "srs",
                                         RuleFile("written", headlessRule))
                      /\ pc' = "createJson" /\ UNCHANGED err
                 ELSE ruleSet' = PutFile(ruleSet, code, "srs",
                                         RuleFile("partial", EmptyRule))
                      /\ Return("writeSrs")
    /\ UNCHANGED <<parseVars, outputFile, cnOutputFile, generateVars, releaseVars, envVars>>

\* lines 243-248: os.Create of the .json file
CreateJson ==
    /\ pc = "createJson"
    /\ \E ok \in BOOLEAN :
        /\ calls' = Append(calls, Call("createJson", ok, code))
        /\ IF ok THEN ruleSet' = PutFile(ruleSet, code, "json",
                                         RuleFile("empty", EmptyRule))
                      /\ pc' = "encodeJson" /\ UNCHANGED err
                 ELSE UNCHANGED ruleSet /\ Return("createJson")
    /\ UNCHANGED <<parseVars, outputFile, cnOutputFile, generateVars, releaseVars, envVars>>

\* lines 249-257: je.Encode(plainRuleSet); the loop goes on with the next key
EncodeJson ==
    /\ pc = "encodeJson"
    /\ \E ok \in BOOLEAN :
        /\ calls' = Append(calls, Call("encodeJson", ok, code))
        /\ IF ok THEN ruleSet' = PutFile(ruleSet, code, "json",
                                         RuleFile("written", headlessRule))
                      /\ pc' = "range" /\ UNCHANGED err
                 ELSE ruleSet' = PutFile(ruleSet, code, "json",
                                         RuleFile("partial", EmptyRule))
                      /\ Return("encodeJson")
    /\ UNCHANGED <<parseVars, outputFile, cnOutputFile, generateVars, releaseVars, envVars>>

\* line 259: the range loop is over, return nil
GenerateDone ==
    /\ pc = "range"
    /\ remaining = {}
    /\ pc' = "generated"
    /\ UNCHANGED <<parseVars, err, fileVars, generateVars, calls, releaseVars, envVars>>

-----------------------------------------------------------------------------
(* release *)

True == <<"t", "r", "u", "e">>

NotFetched == [fetched |-> FALSE, Name |-> <<>>]
Fetched(name) == [fetched |-> TRUE, Name |-> name]

Output(name, content) == [name |-> name, content |-> content]

\* line 275: the condition of the freshness gate
ShouldSkipOnEqualName(env, destinationName, sourceName) ==
    env # True /\ destinationName = sourceName

ShouldSkip(env, destinationName, sourceName) ==
    env # True /\ Contains(destinationName, sourceName)

SourceNames == {<<"1">>, <<"1", "2">>}
DestinationNames == {<<"1">>, <<"2">>, <<"2", "1">>, <<"2", "1", "2">>}

\* lines 267-270: fetch(source)
FetchSource ==
    /\ pc = "release"
    /\ \/ \E name \in SourceNames :
            sourceRelease' = Fetched(name) /\ pc' = "fetchDestination" /\ UNCHANGED err
       \/ UNCHANGED sourceRelease /\ pc' = "returned" /\ err' = "fetch"
    /\ UNCHANGED <<parseVars, fileVars, generateVars, calls, destinationRelease,
                   outputs, envVars>>

\* lines 271-280: fetch(destination) and the freshness gate
FetchDestination ==
    /\ pc = "fetchDestination"
    /\ \/ \E name \in DestinationNames :
            /\ destinationRelease' = Fetched(name)
            /\ IF ShouldSkip(noSkip, name, sourceRelease.Name)
               THEN outputs' = Append(outputs, Output("skip", True)) /\ pc' = "returned"
               ELSE UNCHANGED outputs /\ pc' = "download"
       \/ UNCHANGED <<destinationRelease, outputs>> /\ pc' = "download"
    /\ UNCHANGED <<parseVars, err, fileVars, generateVars, calls, sourceRelease, envVars>>

\* lines 281-286: generate has returned
FinishRelease ==
    /\ pc = "generated"
    /\ pc' = "returned"
    /\ outputs' = IF err = "nil" THEN Append(outputs, Output("tag", sourceRelease.Name))
                  ELSE outputs
    /\ UNCHANGED <<parseVars, err, fileVars, generateVars, calls, sourceRelease,
                   destinationRelease, envVars>>

-----------------------------------------------------------------------------
(* Inputs *)

MaxDomains == 2
MaxEntries == 3

SeqsUpTo(S, n) == UNION {[1..k -> S] : k \in 0..n}

X  == <<"x">>
XC == <<"x", ".", "c">>

DomainValues == {X, XC}
AttributeLists == {<<>>, <<<<"a">>, <<"A">>>>, <<<<"a">>, <<"a">>>>}

DomainEntries ==
    [Type : DomainTypes, Value : DomainValues, Attribute : AttributeLists]

\* one record with every combination of entries
DecodeEntries ==
    [CountryCode : {<<"C", "n">>}, Domain : SeqsUpTo(DomainEntries, MaxDomains)]

Entry(t, v, attrs) == [Type |-> t, Value |-> v, Attribute |-> attrs]

\* records whose keys collide: by case, and by a code that reads like a pseudo-category
ParseCodes == {<<"c">>, <<"C">>, <<"C", "@", "a">>}
ParseDomainLists ==
    { <<Entry("Full", XC, <<>>)>>,
      <<Entry("RootDomain", X, <<<<"a">>>>)>>,
      <<Entry("Plain", X, <<<<"a">>, <<"A">>>>), Entry("Full", XC, <<<<"a">>>>),
        Entry("RootDomain", XC, <<>>)>> }

ParseEntries == [CountryCode : ParseCodes, Domain : ParseDomainLists]

\* records under the codes the subset selection looks for
GenEntries ==
    { [CountryCode |-> <<"C", "N">>,
       Domain |-> <<Entry("Plain", X, <<>>), Entry("Full", XC, <<>>),
                    Entry("RootDomain", X, <<>>), Entry("Regex", X, <<>>),
                    Entry("Full", X, <<>>), Entry("RootDomain", XC, <<>>)>>],
      [CountryCode |-> cnCodes[2],
       Domain |-> <<Entry("RootDomain", XC, <<>>)>>],
      [CountryCode |-> <<"c", "a", "t", "e", "g", "o", "r", "y", "-", "c", "o", "m",
                         "p", "a", "n", "i", "e", "s">>,
       Domain |-> <<Entry("Full", XC, <<<<"c", "n">>>>), Entry("Regex", X, <<>>)>>] }

Blob(entries) == [ok |-> TRUE, Entry |-> entries]
Garbage == [ok |-> FALSE, Entry |-> <<>>]

GenBlobs == {Blob(l) : l \in SeqsUpTo(GenEntries, MaxEntries)} \cup {Garbage}
ReleaseBlobs == {Blob(<<e>>) : e \in GenEntries} \cup {Garbage}

-----------------------------------------------------------------------------
(* Specifications *)

NoParse ==
    /\ vGeositeList = <<>>
    /\ domains = <<>>
    /\ domainMap = EmptyMap
    /\ parsed = FALSE

NoGenerate ==
    /\ err = "nil"
    /\ vData = Garbage
    /\ outputFile = InitialFile
    /\ cnOutputFile = InitialFile
    /\ ruleSet = InitialRuleSet
    /\ cnDomainMap = EmptyMap
    /\ remaining = {}
    /\ code = NoCode
    /\ headlessRule = EmptyRule
    /\ calls = <<>>

InitParse ==
    /\ NoParse
    /\ pc = "parse"
    /\ stale = FALSE
    /\ upstream = Garbage
    /\ noSkip = <<>>
    /\ NoGenerate
    /\ sourceRelease = NotFetched
    /\ destinationRelease = NotFetched
    /\ outputs = <<>>

\* the record lists parse is applied to: every single record, and the
\* lists of records with colliding keys
ParseInputs ==
    {<<e>> : e \in DecodeEntries} \cup SeqsUpTo(ParseEntries, MaxEntries)

ParseList ==
    /\ ~parsed
    /\ \E l \in ParseInputs : Parsed(l)
    /\ UNCHANGED <<pc, err, fileVars, generateVars, calls, releaseVars, envVars>>

SpecParse == InitParse /\ [][ParseList]_vars

\* generate, called with a fetched release
InitGenerate ==
    /\ NoParse
    /\ pc = "download"
    /\ stale \in BOOLEAN
    /\ upstream \in GenBlobs
    /\ noSkip = <<>>
    /\ NoGenerate
    /\ sourceRelease = Fetched(<<"1">>)
    /\ destinationRelease = NotFetched
    /\ outputs = <<>>

NextGenerate ==
    \/ Download \/ ParseData \/ CreateOutput \/ WriteOutput \/ CreateCnOutput
    \/ WriteCnOutput \/ MakeRuleSetDir \/ CreateSrs \/ WriteSrs \/ CreateJson
    \/ EncodeJson \/ GenerateDone

SpecGenerate == InitGenerate /\ [][NextGenerate]_vars

\* release, from main
Init ==
    /\ NoParse
    /\ pc = "release"
    /\ stale \in BOOLEAN
    /\ upstream \in ReleaseBlobs
    /\ noSkip \in {<<>>, True, <<"1">>}
    /\ NoGenerate
    /\ sourceRelease = NotFetched
    /\ destinationRelease = NotFetched
    /\ outputs = <<>>

Next == FetchSource \/ FetchDestination \/ NextGenerate \/ FinishRelease

Spec == Init /\ [][Next]_vars

-----------------------------------------------------------------------------
(* Properties of parse *)

HasDot(v) == \E i \in 1..Len(v) : v[i] = "."

\* the mapping table of the record decoder
TableItems(d) ==
    IF d.Type = "Plain" THEN <<[Type |-> "DomainKeyword", Value |-> d.Value]>>
    ELSE IF d.Type = "Regex" THEN <<[Type |-> "DomainRegex", Value |-> d.Value]>>
    ELSE IF d.Type = "Full" THEN <<[Type |-> "Domain", Value |-> d.Value]>>
    ELSE IF d.Type = "RootDomain" /\ HasDot(d.Value)
         THEN <<[Type |-> "Domain", Value |-> d.Value],
                [Type |-> "DomainSuffix", Value |-> <<".">> \o d.Value]>>
    ELSE IF d.Type = "RootDomain"
         THEN <<[Type |-> "DomainSuffix", Value |-> <<".">> \o d.Value]>>
    ELSE <<>>

RECURSIVE TableItemsOf(_)
TableItemsOf(ds) ==
    IF ds = <<>> THEN <<>> ELSE TableItems(Head(ds)) \o TableItemsOf(Tail(ds))

ItemsIn(list) == {list[i] : i \in 1..Len(list)}

Carries(d, a) == \E j \in 1..Len(d.Attribute) : d.Attribute[j] = a
Tagged(ds, a) == SelectSeq(ds, LAMBDA d : Carries(d, a))
CarriedKeys(ds) ==
    {a \in UNION {ItemsIn(ds[i].Attribute) : i \in 1..Len(ds)} : \E i \in 1..Len(ds) : Carries(ds[i], a)}

NoDuplicates(list) == \A i, j \in 1..Len(list) : i # j => list[i] # list[j]
FirstIndex(list, x) ==
    CHOOSE i \in 1..Len(list) : list[i] = x /\ \A j \in 1..(i - 1) : list[j] # x

\* out is src with every later duplicate removed, first occurrences in place
IsDedupOf(out, src) ==
    /\ NoDuplicates(out)
    /\ ItemsIn(out) = ItemsIn(src)
    /\ \A i, j \in 1..Len(out) :
          i < j => FirstIndex(src, out[i]) < FirstIndex(src, out[j])

BaseKeyOf(e) == ToLower(e.CountryCode)
PseudoKeyOf(e, a) == BaseKeyOf(e) \o <<"@">> \o a
PseudoKeysOf(e) == {PseudoKeyOf(e, a) : a \in CarriedKeys(e.Domain)}
KeysOf(e) == {BaseKeyOf(e)} \cup PseudoKeysOf(e)

\* no record after the i-th writes the key
NotOverwritten(i, k) ==
    \A j \in (i + 1)..Len(vGeositeList) : k \notin KeysOf(vGeositeList[j])

\* C1: the items one domain entry appends to the base list are fixed by its
\* type: Plain -> one DomainKeyword, Regex -> one DomainRegex, Full -> one
\* Domain, RootDomain with a dot -> Domain then DomainSuffix("." + value),
\* RootDomain without a dot -> only DomainSuffix("." + value), any other type
\* -> nothing; so `domains` is the concatenation of the table's rows.
C1_TypeMapping ==
    parsed /\ vGeositeList # <<>> =>
        domains = TableItemsOf(vGeositeList[Len(vGeositeList)].Domain)

C1_Witness ==
    /\ parsed
    /\ Len(vGeositeList) = 1
    /\ vGeositeList[1].Domain =
          <<Entry("RootDomain", X, <<>>), Entry("Other", XC, <<>>)>>
    /\ domains = <<Item("DomainSuffix", <<".", "x">>)>>

\* C2: for a record with code c and an attribute key a carried by some of its
\* entries, the map holds lower(c)+"@"+a with the deduplicated mapping of
\* exactly the entries carrying a, in upstream order, and the list under
\* lower(c) holds the items of every entry of the record, tagged or not.
C2_AttributeFanOut ==
    parsed =>
        \A i \in 1..Len(vGeositeList) :
            LET e == vGeositeList[i]
            IN  /\ NotOverwritten(i, BaseKeyOf(e)) =>
                      /\ BaseKeyOf(e) \in DOMAIN domainMap
                      /\ ItemsIn(TableItemsOf(e.Domain))
                            \subseteq ItemsIn(domainMap[BaseKeyOf(e)])
                /\ \A a \in CarriedKeys(e.Domain) :
                      NotOverwritten(i, PseudoKeyOf(e, a)) =>
                          /\ PseudoKeyOf(e, a) \in DOMAIN domainMap
                          /\ IsDedupOf(domainMap[PseudoKeyOf(e, a)],
                                       TableItemsOf(Tagged(e.Domain, a)))

C2_Witness ==
    /\ parsed
    /\ Len(vGeositeList) = 1
    /\ vGeositeList[1].CountryCode = <<"C">>
    /\ LET ds == vGeositeList[1].Domain
       IN  /\ Len(ds) = 3
           /\ Cardinality({i \in 1..3 : Carries(ds[i], <<"a">>)}) = 2
           /\ Cardinality({i \in 1..3 : ds[i].Attribute = <<>>}) = 1
    /\ domainMap[<<"c", "@", "a">>] = <<Item("DomainKeyword", X), Item("Domain", XC)>>
    /\ domainMap[<<"c">>] = <<Item("DomainKeyword", X), Item("Domain", XC),
                              Item("DomainSuffix", <<".", "x", ".", "c">>)>>

\* the decoded, not yet deduplicated list the last writer of key k stored
DecodedFor(k) ==
    LET i == CHOOSE n \in 1..Len(vGeositeList) :
                 k \in KeysOf(vGeositeList[n]) /\ NotOverwritten(n, k)
        e == vGeositeList[i]
    IN  IF k \in PseudoKeysOf(e)
        THEN TableItemsOf(Tagged(e.Domain,
                 CHOOSE a \in CarriedKeys(e.Domain) : PseudoKeyOf(e, a) = k))
        ELSE TableItemsOf(e.Domain)

\* C3: every stored list, base or pseudo-category, has no two equal items and
\* is the decoded sequence with later duplicates removed, first occurrences
\* in place; deduplicating it again changes nothing.
C3_Deduplicated ==
    parsed =>
        \A k \in DOMAIN domainMap :
            /\ NoDuplicates(domainMap[k])
            /\ IsDedupOf(domainMap[k], DecodedFor(k))
            /\ Uniq(domainMap[k]) = domainMap[k]

C3_Witness ==
    /\ parsed
    /\ Len(vGeositeList) = 1
    /\ vGeositeList[1].Domain =
          <<Entry("RootDomain", XC, <<>>), Entry("Full", XC, <<>>)>>
    /\ Len(domains) = 3
    /\ domainMap[<<"c", "n">>] =
          <<Item("Domain", XC), Item("DomainSuffix", <<".", "x", ".", "c">>)>>

CasePairs == {<<UpperLetters[i], LowerLetters[i]>> : i \in 1..Len(UpperLetters)}
IsUpper(ch) == \E pair \in CasePairs : pair[1] = ch

\* k is c with every upper-case letter replaced by its lower-case letter
IsLowerOf(k, c) ==
    /\ Len(k) = Len(c)
    /\ \A j \in 1..Len(c) :
          IF IsUpper(c[j]) THEN <<c[j], k[j]>> \in CasePairs ELSE k[j] = c[j]

\* c and d differ at most in the case of their letters
SameButCase(c, d) ==
    /\ Len(c) = Len(d)
    /\ \A j \in 1..Len(c) :
          c[j] = d[j] \/ <<c[j], d[j]>> \in CasePairs \/ <<d[j], c[j]>> \in CasePairs

\* k is b, then "@", then the attribute key a as it is
IsPseudoKey(k, c, a) ==
    /\ Len(k) = Len(c) + 1 + Len(a)
    /\ IsLowerOf(SubSeq(k, 1, Len(c)), c)
    /\ k[Len(c) + 1] = "@"
    /\ SubSeq(k, Len(c) + 2, Len(k)) = a

\* C8: every key of the returned map is lower(c) for the code c of some
\* record, or lower(c)+"@"+a for an attribute key a of an entry of that
\* record, a taken verbatim; every record's base key is there in lower case,
\* so codes that differ only in case share one key.
C8_KeyShape ==
    parsed =>
        /\ \A k \in DOMAIN domainMap :
              \E i \in 1..Len(vGeositeList) :
                  \/ IsLowerOf(k, vGeositeList[i].CountryCode)
                  \/ \E a \in CarriedKeys(vGeositeList[i].Domain) :
                        IsPseudoKey(k, vGeositeList[i].CountryCode, a)
        /\ \A i \in 1..Len(vGeositeList) :
              /\ \E k \in DOMAIN domainMap : IsLowerOf(k, vGeositeList[i].CountryCode)
              /\ \A a \in CarriedKeys(vGeositeList[i].Domain) :
                    \E k \in DOMAIN domainMap :
                        IsPseudoKey(k, vGeositeList[i].CountryCode, a)
        /\ \A i, j \in 1..Len(vGeositeList) :
              SameButCase(vGeositeList[i].CountryCode, vGeositeList[j].CountryCode) =>
                  \E k \in DOMAIN domainMap :
                      /\ IsLowerOf(k, vGeositeList[i].CountryCode)
                      /\ IsLowerOf(k, vGeositeList[j].CountryCode)

C8_Witness ==
    /\ parsed
    /\ Len(vGeositeList) = 2
    /\ vGeositeList[1].CountryCode = <<"c">>
    /\ vGeositeList[2].CountryCode = <<"C">>
    /\ DOMAIN domainMap = {<<"c">>, <<"c", "@", "a">>, <<"c", "@", "A">>}

\* the last record whose lower-cased code is k
LastWithCode(k) ==
    CHOOSE i \in 1..Len(vGeositeList) :
        /\ BaseKeyOf(vGeositeList[i]) = k
        /\ \A j \in (i + 1)..Len(vGeositeList) : BaseKeyOf(vGeositeList[j]) # k

Collides(i) ==
    \E j \in 1..Len(vGeositeList) :
        j # i /\ BaseKeyOf(vGeositeList[j]) = BaseKeyOf(vGeositeList[i])

\* C9 as claimed: when records share a lower-cased code, the list under that
\* code is the deduplicated decoding of the last such record alone.
C9_LastRecordWins ==
    parsed =>
        \A i \in 1..Len(vGeositeList) :
            Collides(i) =>
                LET k == BaseKeyOf(vGeositeList[i])
                IN  IsDedupOf(domainMap[k],
                              TableItemsOf(vGeositeList[LastWithCode(k)].Domain))

\* C9, amended: when records share a lower-cased code, the list under that
\* code is the deduplicated decoding of the last such record alone, unless
\* a record after it writes the same key as a pseudo-category key.
C9_LastWriteWins ==
    parsed =>
        \A i \in 1..Len(vGeositeList) :
            Collides(i) =>
                LET k == BaseKeyOf(vGeositeList[i])
                IN  NotOverwritten(LastWithCode(k), k) =>
                        IsDedupOf(domainMap[k],
                                  TableItemsOf(vGeositeList[LastWithCode(k)].Domain))

C9_Witness ==
    /\ parsed
    /\ Len(vGeositeList) = 2
    /\ vGeositeList[1] =
          [CountryCode |-> <<"c">>, Domain |-> <<Entry("RootDomain", X, <<<<"a">>>>)>>]
    /\ vGeositeList[2] =
          [CountryCode |-> <<"C">>, Domain |-> <<Entry("Full", XC, <<>>)>>]
    /\ domainMap[<<"c">>] = <<Item("Domain", XC)>>

\* C10 as claimed: for every pseudo-category key b+"@"+a the fan-out produces,
\* b is a key too and every item under b+"@"+a also occurs under b.
C10_Containment ==
    parsed =>
        \A i \in 1..Len(vGeositeList) :
            \A a \in CarriedKeys(vGeositeList[i].Domain) :
                LET b == BaseKeyOf(vGeositeList[i])
                    k == PseudoKeyOf(vGeositeList[i], a)
                IN  /\ b \in DOMAIN domainMap
                    /\ k \in DOMAIN domainMap
                    /\ ItemsIn(domainMap[k]) \subseteq ItemsIn(domainMap[b])

\* C10, amended: the containment holds for the pseudo-categories of a record
\* as long as no later record writes b or b+"@"+a again.
C10_ContainmentUntilOverwritten ==
    parsed =>
        \A i \in 1..Len(vGeositeList) :
            \A a \in CarriedKeys(vGeositeList[i].Domain) :
                LET b == BaseKeyOf(vGeositeList[i])
                    k == PseudoKeyOf(vGeositeList[i], a)
                IN  NotOverwritten(i, b) /\ NotOverwritten(i, k) =>
                        /\ b \in DOMAIN domainMap
                        /\ k \in DOMAIN domainMap
                        /\ ItemsIn(domainMap[k]) \subseteq ItemsIn(domainMap[b])

C10_Witness ==
    /\ parsed
    /\ Len(vGeositeList) = 2
    /\ vGeositeList[1].CountryCode = <<"C", "@", "a">>
    /\ vGeositeList[2] =
          [CountryCode |-> <<"c">>,
           Domain |-> <<Entry("Plain", X, <<<<"a">>, <<"A">>>>),
                        Entry("Full", XC, <<<<"a">>>>),
                        Entry("RootDomain", XC, <<>>)>>]
    /\ domainMap[<<"c", "@", "a">>] = <<Item("DomainKeyword", X), Item("Domain", XC)>>
    /\ domainMap[<<"c", "@", "A">>] = <<Item("DomainKeyword", X)>>
    /\ Len(domainMap[<<"c">>]) = 3

-----------------------------------------------------------------------------
(* Properties of generate *)

Called(name) == \E i \in 1..Len(calls) : calls[i].name = name
Succeeded(name) == \E i \in 1..Len(calls) : calls[i].name = name /\ calls[i].ok
LastCall == calls[Len(calls)]

SubsetKeys ==
    { <<"c", "n">>,
      <<"g", "e", "o", "l", "o", "c", "a", "t", "i", "o", "n", "-", "!", "c", "n">>,
      <<"c", "a", "t", "e", "g", "o", "r", "y", "-", "c", "o", "m", "p", "a", "n", "i",
        "e", "s", "@", "c", "n">> }

\* C4 as claimed: the keys of the subset map are the three fixed keys that
\* are keys of the full map, each with the list of the full map.
C4_Projection ==
    Called("createCnOutput") =>
        /\ DOMAIN cnDomainMap = SubsetKeys \cap DOMAIN domainMap
        /\ \A k \in DOMAIN cnDomainMap : cnDomainMap[k] = domainMap[k]

\* C4, amended: the keys of the subset map are always the three fixed keys;
\* a key of the full map carries the list of the full map, a key missing
\* from the full map carries an empty list.
C4_FixedKeys ==
    Called("createCnOutput") =>
        /\ DOMAIN cnDomainMap = SubsetKeys
        /\ \A k \in SubsetKeys :
              cnDomainMap[k] = IF k \in DOMAIN domainMap THEN domainMap[k] ELSE <<>>
        /\ cnOutputFile.state = "written" => cnOutputFile.data = cnDomainMap

C4_Witness ==
    /\ Succeeded("writeCnOutput")
    /\ DOMAIN domainMap = {<<"c", "n">>}
    /\ Len(cnDomainMap[<<"c", "n">>]) = 6
    /\ Cardinality(DOMAIN cnOutputFile.data) = 3

ValuesOfKind(list, kind) ==
    LET kept == SelectSeq(list, LAMBDA it : it.Type = kind)
    IN  [i \in 1..Len(kept) |-> kept[i].Value]

\* the four buckets hold the values of the list, each under its kind, in order
IsPartitionOf(rule, list) ==
    /\ rule.Domain = ValuesOfKind(list, "Domain")
    /\ rule.DomainSuffix = ValuesOfKind(list, "DomainSuffix")
    /\ rule.DomainKeyword = ValuesOfKind(list, "DomainKeyword")
    /\ rule.DomainRegex = ValuesOfKind(list, "DomainRegex")
    /\ Len(rule.Domain) + Len(rule.DomainSuffix) + Len(rule.DomainKeyword)
          + Len(rule.DomainRegex) = Len(list)

\* C5: the four buckets handed to the rule-set writers for a category hold
\* exactly the values of its item list, every item in the one bucket of its
\* kind, in the order of the list; so do the files the writers wrote.
C5_LosslessPartition ==
    /\ pc \in {"writeSrs", "createJson", "encodeJson"} =>
          IsPartitionOf(headlessRule, domainMap[code])
    /\ \A f \in DOMAIN ruleSet :
          ruleSet[f].state = "written" => IsPartitionOf(ruleSet[f].data, domainMap[f[1]])

C5_Witness ==
    /\ pc = "createJson"
    /\ code = <<"c", "n">>
    /\ headlessRule = [Domain |-> <<XC, X>>,
                       DomainSuffix |-> <<<<".", "x">>, <<".", "x", ".", "c">>>>,
                       DomainKeyword |-> <<X>>,
                       DomainRegex |-> <<X>>]
    /\ ruleSet[<<code, "srs">>] = RuleFile("written", headlessRule)

\* the fixed order of the steps of generate
Follows(a, b) ==
    \/ a.name = "download" /\ b.name = "decode"
    \/ a.name = "decode" /\ b.name = "createOutput"
    \/ a.name = "createOutput" /\ b.name = "writeOutput"
    \/ a.name = "writeOutput" /\ b.name = "createCnOutput"
    \/ a.name = "createCnOutput" /\ b.name = "writeCnOutput"
    \/ a.name = "writeCnOutput" /\ b.name = "mkdir"
    \/ a.name = "mkdir" /\ b.name = "createSrs"
    \/ a.name = "createSrs" /\ b.name = "writeSrs" /\ b.code = a.code
    \/ a.name = "writeSrs" /\ b.name = "createJson" /\ b.code = a.code
    \/ a.name = "createJson" /\ b.name = "encodeJson" /\ b.code = a.code
    \/ a.name = "encodeJson" /\ b.name = "createSrs" /\ b.code # a.code

\* C6: generate runs its steps in the fixed order and stops at the first
\* failure: only the last call made can have failed, generate then returns
\* the failure, what earlier steps wrote stays, and a decode failure leaves
\* every output file as it was.
C6_FailFast ==
    /\ \A i \in 1..(Len(calls) - 1) : calls[i].ok /\ Follows(calls[i], calls[i + 1])
    /\ calls # <<>> => calls[1].name = "download"
    /\ calls # <<>> /\ ~LastCall.ok => pc \in {"generated", "returned"} /\ err # "nil"
    /\ err \notin {"nil", "fetch"} => calls # <<>> /\ ~LastCall.ok
    /\ Called("decode") /\ ~Succeeded("decode") =>
          /\ outputFile = InitialFile
          /\ cnOutputFile = InitialFile
          /\ ruleSet = InitialRuleSet
    /\ Succeeded("writeOutput") => outputFile = MapFile("written", domainMap)
    /\ Succeeded("writeCnOutput") => cnOutputFile = MapFile("written", cnDomainMap)
    /\ \A i \in 1..Len(calls) :
          /\ calls[i].name = "writeSrs" /\ calls[i].ok =>
                ruleSet[<<calls[i].code, "srs">>].state = "written"
          /\ calls[i].name = "encodeJson" /\ calls[i].ok =>
                ruleSet[<<calls[i].code, "json">>].state = "written"

C6_Witness ==
    /\ pc = "generated"
    /\ err = "encodeJson"
    /\ Len(calls) = 15
    /\ ~LastCall.ok
    /\ outputFile.state = "written"
    /\ cnOutputFile.state = "written"
    /\ \E c \in DOMAIN domainMap :
          /\ c # LastCall.code
          /\ ruleSet[<<c, "json">>].state = "written"
          /\ ruleSet[<<LastCall.code, "srs">>].state = "written"
          /\ ruleSet[<<LastCall.code, "json">>].state = "partial"

-----------------------------------------------------------------------------
(* Properties of release *)

IsSubstring(sub, str) ==
    \E i \in 1..(Len(str) + 1) :
        i + Len(sub) - 1 <= Len(str) /\ SubSeq(str, i, i + Len(sub) - 1) = sub

Skipped == \E i \in 1..Len(outputs) : outputs[i].name = "skip"
TagWritten == \E i \in 1..Len(outputs) : outputs[i].name = "tag"

GateCloses ==
    /\ destinationRelease.fetched
    /\ IsSubstring(sourceRelease.Name, destinationRelease.Name)
    /\ noSkip # <<"t", "r", "u", "e">>

====
